---- MODULE Spec2Model ----
(***************************************************************************)
(* LocalBin storage engine (src/localbin.ts, lines 547-834): the in-memory *)
(* index `pastes`, its debounced persistence to pastes.json through        *)
(* pastes.json.temp, the hourly expiration sweep and the request handlers  *)
(* that touch the index (POST /pastes, GET /pastes/:id, GET /, GET /list). *)
(*                                                                         *)
(* Time is a discrete clock `now`.  One clock unit is one second, so the   *)
(* 2000 ms debounce delay is 2 units; the length of an hour is scaled down *)
(* to `Hour` units.  Timers are the runtime's timer table; a due timer     *)
(* fires before the clock advances.  File operations are asynchronous and  *)
(* take an unconstrained amount of time.                                   *)
(***************************************************************************)
EXTENDS Integers, Sequences, FiniteSets, TLC

\* ---------------------------------------------------------------- bounds
MaxTime    == 4      \* the clock stops here
Hour       == 3      \* clock units per hour (scaled down from 3600)
MaxCreates == 2      \* POST /pastes requests that pass validation
MaxMarks   == 3      \* the same, in the scheduler-only specification
MaxFaults  == 1      \* injected file-system errors
MaxCrashes == 1      \* process kills followed by a restart

\* ------------------------------------------------------------- constants
DebounceDelay == 2                       \* setTimeout(..., 2000)
CleanupPeriod == Hour                    \* setTimeout(..., 60 * 60 * 1000)
IdLength      == 6                       \* generateId(length = 6)
HomePreview   == 50                      \* preview length on the home page
ListPreview   == 100                     \* preview length on the list page
chars == << "a","b","c","d","e","f","g","h","i","j","k","l","m",
            "n","o","p","q","r","s","t","u","v","w","x","y","z",
            "0","1","2","3","4","5","6","7","8","9" >>

\* ------------------------------------------------------ values and inputs
\* A timestamp-valued property: a Date object, an ISO-8601 string (what
\* JSON.stringify makes of a Date) or undefined (property absent).
Date(t)      == [kind |-> "Date",      t |-> t]
IsoString(t) == [kind |-> "string",    t |-> t]
Undefined    == [kind |-> "undefined", t |-> 0]

\* expirationHours after parsing the request body: null, a number or NaN.
Null   == [kind |-> "null",   n |-> 0]
NaN    == [kind |-> "NaN",    n |-> 0]
Num(n) == [kind |-> "number", n |-> n]

Contents         == {"", "hello", "bye"}
ExpirationInputs == {Null, Num(0), Num(1)}
\* Outcomes of the six Math.floor(Math.random() * 36) draws of one generateId.
DrawSeqs         == { <<0, 1, 27, 28, 2, 3>>, <<25, 25, 25, 35, 35, 35>> }

\* Date.prototype.toJSON: a Date becomes its ISO string; strings stay.
ToJSON(v) == IF v.kind = "Date" THEN IsoString(v.t) ELSE v

\* new Date(isoString)
NewDate(v) == Date(v.t)

\* JavaScript truthiness of a value held in expiresAt.
Truthy(v) == v.kind # "undefined"

\* JavaScript `a <= b` with b a Date: a Date compares by time value; a
\* string operand is converted with Number(), which gives NaN for an ISO
\* string, and every comparison with NaN is false.
LessEq(a, b) == a.kind = "Date" /\ a.t <= b.t

\* JavaScript truthiness of expirationHours and isNaN(expirationHours).
TruthyNumber(e) == e.kind = "number" /\ e.n # 0
IsNaN(e)        == e.kind = "NaN"

EmptyMap == [id \in {} |-> 0]

\* JSON.stringify(Object.fromEntries(pastes.entries()), null, 2)
Encode(index) ==
  [id \in DOMAIN index |->
     [content   |-> index[id].content,
      created   |-> ToJSON(index[id].created),
      expiresAt |-> ToJSON(index[id].expiresAt)]]

\* loadPastes' conversion of the parsed object: created becomes a Date,
\* every other property (expiresAt) is copied as parsed.
Decode(data) ==
  [id \in DOMAIN data |->
     [content   |-> data[id].content,
      created   |-> NewDate(data[id].created),
      expiresAt |-> data[id].expiresAt]]

\* Mutant: the loop stops one character early.
generateIdShort(draws) == [i \in 1..(IdLength - 1) |-> chars[draws[i] + 1]]

generateId(draws) == [i \in 1..IdLength |-> chars[draws[i] + 1]]

KnownIds == {generateId(d) : d \in DrawSeqs}

\* ------------------------------------------------------------ file system
\* A file is absent, holds a complete JSON document, or holds a truncated /
\* interleaved write (not a complete document).  `ver` is a history field:
\* the number of index mutations the document reflects.
\* `keys` is the order of the document's top-level properties.
Absent   == [kind |-> "absent",  data |-> EmptyMap, keys |-> <<>>, ver |-> 0]
Partial  == [kind |-> "partial", data |-> EmptyMap, keys |-> <<>>, ver |-> 0]
Json(data, keys, v) == [kind |-> "json", data |-> data, keys |-> keys, ver |-> v]
Bytes(f) == [kind |-> f.kind, data |-> f.data, keys |-> f.keys]

\* A snapshot left by an earlier run: one paste that expires at time 1.
OldFile ==
  Json((generateId(<<25, 25, 25, 35, 35, 35>>) :>
          [content |-> "old", created |-> IsoString(0),
           expiresAt |-> IsoString(1)]),
       << generateId(<<25, 25, 25, 35, 35, 35>>) >>, 0)

StartFiles == {Absent, Partial, OldFile}

VARIABLES
  phase,        \* "loading" | "loaded" | "serving" | "crashed"
  now,          \* the clock
  pastes,       \* id -> [content, created, expiresAt]
  order,        \* the keys of the Map `pastes` in insertion order
  saveTimeout,  \* 0 (null) or a timer id
  timers,       \* armed timers: id -> [kind, due]
  saves,        \* savePastes invocations in flight: id -> record
  storage,      \* the file at STORAGE_FILE
  temp,         \* the file at STORAGE_FILE + ".temp"
  resp,         \* the response of the request handled by the last step
  creates,      \* POST /pastes requests that passed validation
  budget,       \* how many of those the model issues
  faults, crashes,
  \* history variables
  ver,          \* mutations applied to the index in this run
  flushedVer,   \* ver at the start of the latest savePastes
  oldestDirty,  \* time of the earliest mutation no started flush reflects
  lastMark,     \* time of the latest debouncedSavePastes call, -1 if none
  burstSaves,   \* savePastes invocations started since the current burst
                \* of marks (gaps shorter than DebounceDelay) began
  owed,         \* a flush is owed to a mark made while a flush was in flight
  owedWait,     \* the invocations that were in flight at that mark and still are
  owedVer       \* ver at that mark

progVars == <<phase, now, pastes, order, saveTimeout, timers, saves,
              storage, temp, resp, creates, budget, faults, crashes>>
histVars == <<ver, flushedVer, oldestDirty, lastMark, burstSaves, owed, owedWait,
              owedVer>>
vars     == <<progVars, histVars>>

NoResp == [op |-> "none", status |-> 0, id |-> <<>>, content |-> "",
           created |-> Undefined, sent |-> "", expiration |-> Null,
           follows |-> FALSE, list |-> <<>>]

\* ----------------------------------------------------------------- timers
\* Timer ids are opaque positive handles.  setTimeout returns the smallest
\* id that no armed timer, no running callback and not saveTimeout holds.
TimerState == [timers |-> timers, saveTimeout |-> saveTimeout]

NextTimer(ts) ==
  LET used == DOMAIN ts.timers \cup DOMAIN saves \cup {ts.saveTimeout}
  IN  CHOOSE n \in 1..(Cardinality(used) + 1) :
        n \notin used /\ \A m \in 1..(n - 1) : m \in used

\* setTimeout(callback, delay): arms a new timer.
SetTimeout(ts, kind, delay) ==
  [ts EXCEPT !.timers = (NextTimer(ts) :> [kind |-> kind, due |-> now + delay]) @@ @]

\* clearTimeout(id): disarms the timer if it is still armed.
ClearTimeout(tmrs, id) == [t \in DOMAIN tmrs \ {id} |-> tmrs[t]]

\* Mutant: a call made while saveTimeout is set keeps the timer it finds
\* instead of restarting the delay.
debouncedSavePastesKeep(ts) ==
  IF ts.saveTimeout # 0
  THEN ts
  ELSE [SetTimeout(ts, "save", DebounceDelay) EXCEPT !.saveTimeout = NextTimer(ts)]

debouncedSavePastes(ts) ==
  LET cleared == IF ts.saveTimeout # 0
                 THEN [ts EXCEPT !.timers = ClearTimeout(@, ts.saveTimeout)]
                 ELSE ts
  IN  [SetTimeout(cleared, "save", DebounceDelay)
         EXCEPT !.saveTimeout = NextTimer(cleared)]

SetTimers(ts) ==
  /\ timers' = ts.timers
  /\ saveTimeout' = ts.saveTimeout

Due(id) == id \in DOMAIN timers /\ timers[id].due <= now

\* History bookkeeping of a dirty-mark (a debouncedSavePastes call) that
\* follows a mutation of the index.
MarkDirty ==
  /\ ver' = ver + 1
  /\ oldestDirty' = IF oldestDirty = -1 THEN now ELSE oldestDirty
  /\ lastMark' = now
  /\ burstSaves' = IF lastMark = -1 \/ now - lastMark >= DebounceDelay
                   THEN 0 ELSE burstSaves
  /\ owed' = (owed \/ DOMAIN saves # {})
  /\ owedWait' = IF DOMAIN saves # {} THEN DOMAIN saves ELSE owedWait
  /\ owedVer' = IF DOMAIN saves # {} THEN ver + 1 ELSE owedVer
  /\ UNCHANGED flushedVer

\* ---------------------------------------------------------------- startup
InitWith(b) ==
  /\ budget = b
  /\ phase = "loading"
  /\ now = 0
  /\ pastes = EmptyMap /\ order = <<>>
  /\ saveTimeout = 0
  /\ timers = EmptyMap
  /\ saves = EmptyMap
  /\ storage \in StartFiles
  /\ temp = Absent
  /\ resp = NoResp
  /\ creates = 0 /\ faults = 0 /\ crashes = 0
  /\ ver = 0 /\ flushedVer = 0 /\ oldestDirty = -1 /\ lastMark = -1
  /\ burstSaves = 0 /\ owed = FALSE /\ owedWait = {} /\ owedVer = 0

Init == InitWith(MaxCreates)

\* Mutant: an error of the read or of the parse is not caught and ends the
\* process.
loadPastesThrow ==
  /\ phase = "loading"
  /\ pastes' = IF storage.kind = "json" THEN Decode(storage.data) ELSE EmptyMap
  /\ order' = IF storage.kind = "json" THEN storage.keys ELSE <<>>
  /\ phase' = IF storage.kind = "json" THEN "loaded" ELSE "crashed"
  /\ resp' = NoResp
  /\ UNCHANGED <<now, saveTimeout, timers, saves, storage, temp,
                 creates, budget, faults, crashes, histVars>>

\* await loadPastes(): a readable, well-formed file populates the index;
\* a missing one, and one whose read or parse fails, leave it empty.
loadPastes ==
  /\ phase = "loading"
  /\ pastes' = IF storage.kind = "json" THEN Decode(storage.data) ELSE EmptyMap
  /\ order' = IF storage.kind = "json" THEN storage.keys ELSE <<>>
  /\ phase' = "loaded"
  /\ resp' = NoResp
  /\ UNCHANGED <<now, saveTimeout, timers, saves, storage, temp,
                 creates, budget, faults, crashes, histVars>>

\* ------------------------------------------------------------------ sweep
\* Mutant: every paste that has an expiresAt is taken, whatever the time.
ExpiredIdsAny(index) ==
  {id \in DOMAIN index : Truthy(index[id].expiresAt)}

ExpiredIds(index) ==
  {id \in DOMAIN index :
     Truthy(index[id].expiresAt) /\ LessEq(index[id].expiresAt, Date(now))}

\* The body of cleanupExpiredPastes, including the re-arming of its timer.
cleanupExpiredPastes(tmrs) ==
  LET gone == ExpiredIds(pastes)
      ts0  == [TimerState EXCEPT !.timers = tmrs]
      ts1  == IF gone # {} THEN debouncedSavePastes(ts0) ELSE ts0
  IN  /\ pastes' = [id \in DOMAIN pastes \ gone |-> pastes[id]]
      /\ order' = SelectSeq(order, LAMBDA id : id \notin gone)
      /\ SetTimers(SetTimeout(ts1, "cleanup", CleanupPeriod))
      /\ IF gone # {} THEN MarkDirty ELSE UNCHANGED histVars

\* Mutant: loadPastes() is called without await, so the module runs on
\* before the file has been read.
StartupNoAwait ==
  /\ phase \in {"loading", "loaded"}
  /\ cleanupExpiredPastes(timers)
  /\ phase' = "serving"
  /\ resp' = NoResp
  /\ UNCHANGED <<now, saves, storage, temp, creates, budget, faults, crashes>>

\* cleanupExpiredPastes(); Deno.serve(...) once loadPastes has resolved.
Startup ==
  /\ phase = "loaded"
  /\ cleanupExpiredPastes(timers)
  /\ phase' = "serving"
  /\ resp' = NoResp
  /\ UNCHANGED <<now, saves, storage, temp, creates, budget, faults, crashes>>

\* The cleanup timer fires.
CleanupTimer(id) ==
  /\ phase = "serving"
  /\ Due(id) /\ timers[id].kind = "cleanup"
  /\ cleanupExpiredPastes(ClearTimeout(timers, id))
  /\ resp' = NoResp
  /\ UNCHANGED <<phase, now, saves, storage, temp, creates, budget, faults, crashes>>

\* --------------------------------------------------------------- requests
\* Mutant: the content check is skipped.
ContentMissingNever(content) == FALSE

\* `!content`
ContentMissing(content) == content = ""

\* Mutant: the handler holds off while a savePastes invocation is in flight.
CreateWaits(content, expirationHours, draws) ==
  /\ phase = "serving"
  /\ DOMAIN saves = {}
  /\ IF ContentMissing(content)
     THEN /\ resp' = [NoResp EXCEPT !.op = "Create", !.status = 400,
                                    !.sent = content]
          /\ UNCHANGED <<phase, now, pastes, order, saveTimeout, timers,
                         saves, storage, temp, creates, budget, faults, crashes,
                         histVars>>
     ELSE LET id        == generateId(draws)
              created   == Date(now)
              expiresAt == IF TruthyNumber(expirationHours)
                              /\ ~IsNaN(expirationHours)
                           THEN Date(created.t + expirationHours.n * Hour)
                           ELSE Undefined
              pasteData == [content |-> content, created |-> created,
                            expiresAt |-> expiresAt]
          IN  /\ creates < budget
              /\ creates' = creates + 1
              /\ pastes' = (id :> pasteData) @@ pastes
              /\ order' = IF id \in DOMAIN pastes THEN order ELSE Append(order, id)
              /\ SetTimers(debouncedSavePastes(TimerState))
              /\ MarkDirty
              /\ resp' = [NoResp EXCEPT !.op = "Create", !.status = 302,
                                        !.id = id, !.sent = content,
                                        !.expiration = expirationHours]
              /\ UNCHANGED <<phase, now, saves, storage, temp, budget,
                             faults, crashes>>

\* POST /pastes
Create(content, expirationHours, draws) ==
  /\ phase = "serving"
  /\ IF ContentMissing(content)
     THEN /\ resp' = [NoResp EXCEPT !.op = "Create", !.status = 400,
                                    !.sent = content]
          /\ UNCHANGED <<phase, now, pastes, order, saveTimeout, timers,
                         saves, storage, temp, creates, budget, faults, crashes,
                         histVars>>
     ELSE LET id        == generateId(draws)
              created   == Date(now)
              expiresAt == IF TruthyNumber(expirationHours)
                              /\ ~IsNaN(expirationHours)
                           THEN Date(created.t + expirationHours.n * Hour)
                           ELSE Undefined
              pasteData == [content |-> content, created |-> created,
                            expiresAt |-> expiresAt]
          IN  /\ creates < budget
              /\ creates' = creates + 1
              /\ pastes' = (id :> pasteData) @@ pastes
              /\ order' = IF id \in DOMAIN pastes THEN order ELSE Append(order, id)
              /\ SetTimers(debouncedSavePastes(TimerState))
              /\ MarkDirty
              /\ resp' = [NoResp EXCEPT !.op = "Create", !.status = 302,
                                        !.id = id, !.sent = content,
                                        !.expiration = expirationHours]
              /\ UNCHANGED <<phase, now, saves, storage, temp, budget,
                             faults, crashes>>

\* Mutant: a paste is deleted once it has been read.
GetOnce(id) ==
  /\ phase = "serving"
  /\ LET follows == resp.op = "Create" /\ resp.status = 302 /\ resp.id = id
          found   == id \in DOMAIN pastes
      IN  resp' = [op |-> "Get",
                   status |-> IF found THEN 200 ELSE 404,
                   id |-> id,
                   content |-> IF found THEN pastes[id].content ELSE "",
                   created |-> IF found THEN pastes[id].created ELSE Undefined,
                   sent |-> IF follows THEN resp.sent ELSE "",
                   expiration |-> IF follows THEN resp.expiration ELSE Null,
                   follows |-> follows,
                   list |-> <<>>]
  /\ pastes' = [x \in DOMAIN pastes \ {id} |-> pastes[x]]
  /\ order' = SelectSeq(order, LAMBDA x : x # id)
  /\ UNCHANGED <<phase, now, saveTimeout, timers, saves,
                 storage, temp, creates, budget, faults, crashes, histVars>>

\* GET /pastes/:id
Get(id) ==
  /\ phase = "serving"
  /\ LET \* history: this Get directly follows the Create that returned id
          follows == resp.op = "Create" /\ resp.status = 302 /\ resp.id = id
          found   == id \in DOMAIN pastes
      IN  resp' = [op |-> "Get",
                   status |-> IF found THEN 200 ELSE 404,
                   id |-> id,
                   content |-> IF found THEN pastes[id].content ELSE "",
                   created |-> IF found THEN pastes[id].created ELSE Undefined,
                   sent |-> IF follows THEN resp.sent ELSE "",
                   expiration |-> IF follows THEN resp.expiration ELSE Null,
                   follows |-> follows,
                   list |-> <<>>]
  /\ UNCHANGED <<phase, now, pastes, order, saveTimeout, timers, saves,
                 storage, temp, creates, budget, faults, crashes, histVars>>

\* Date.prototype.toLocaleString: the instant rendered as text.
ToLocaleString(d) == [kind |-> "locale", t |-> d.t]

\* content.length > limit ? content.substring(0, limit) + '...' : content
Preview(content, limit) ==
  IF Len(content) > limit THEN SubSeq(content, 1, limit) \o "..." ELSE content

\* Array.prototype.sort with (a, b) => b.created - a.created, a stable
\* sort: newest first, entries of equal `created` in the order they had.
RECURSIVE SortNewestFirst(_)
SortNewestFirst(ids) ==
  LET RECURSIVE Insert(_, _)
      Insert(id, sorted) ==
        IF sorted = <<>>
             \/ pastes[Head(sorted)].created.t <= pastes[id].created.t
        THEN <<id>> \o sorted
        ELSE <<Head(sorted)>> \o Insert(id, Tail(sorted))
  IN  IF ids = <<>> THEN <<>>
      ELSE Insert(Head(ids), SortNewestFirst(Tail(ids)))

\* The pasteList of both listing pages: every entry of the Map, sorted,
\* mapped to id, rendered creation time and preview.
PasteList(limit) ==
  LET sorted == SortNewestFirst(order)
  IN  [i \in 1..Len(sorted) |->
         [id      |-> sorted[i],
          created |-> ToLocaleString(pastes[sorted[i]].created),
          preview |-> Preview(pastes[sorted[i]].content, limit)]]

renderHomePage      == PasteList(HomePreview)
renderPasteListPage == PasteList(ListPreview)

\* GET / (limit 50) and GET /list (limit 100)
ListRecent(limit) ==
  /\ phase = "serving"
  /\ resp' = [NoResp EXCEPT !.op = "List", !.status = 200,
                            !.list = IF limit = HomePreview
                                     THEN renderHomePage
                                     ELSE renderPasteListPage]
  /\ UNCHANGED <<phase, now, pastes, order, saveTimeout, timers, saves,
                 storage, temp, creates, budget, faults, crashes, histVars>>

\* ------------------------------------------------------------------ flush
\* The debounce timer fires: its callback calls savePastes, which takes
\* the snapshot (Object.fromEntries, JSON.stringify) and issues the write
\* of the temp file before it first suspends.
\* pc: "open" -> "write" -> "rename" -> "return".  fd: where the file the
\* invocation has open for writing is linked ("none" when it has none).
\* raced: another invocation had the same file open for writing meanwhile.
\* before: the bytes of the storage file when the invocation began.
\* failed: one of its file operations rejected and the catch block ran.
SaveTimer(id) ==
  /\ phase = "serving"
  /\ Due(id) /\ timers[id].kind = "save"
  /\ timers' = ClearTimeout(timers, id)
  /\ saves' = (id :> [data |-> Encode(pastes), keys |-> order,
                      ver |-> ver, pc |-> "open",
                      fd |-> "none", raced |-> FALSE, failed |-> FALSE,
                      before |-> Bytes(storage)]) @@ saves
  /\ flushedVer' = ver
  /\ oldestDirty' = -1
  /\ burstSaves' = burstSaves + 1
  /\ owed' = (owed /\ owedWait # {})
  /\ resp' = NoResp
  /\ UNCHANGED <<phase, now, pastes, order, saveTimeout, storage, temp,
                 creates, budget, faults, crashes, ver, lastMark, owedWait,
                 owedVer>>

Writers(where) == {s \in DOMAIN saves : saves[s].pc = "write" /\ saves[s].fd = where}

\* Deno.writeTextFile(tempFile, ...) opens the temp file, creating or
\* truncating it.
WriteOpen(s) ==
  /\ s \in DOMAIN saves /\ saves[s].pc = "open"
  /\ temp' = Partial
  /\ saves' = [x \in DOMAIN saves |->
                 IF x = s
                 THEN [saves[x] EXCEPT !.pc = "write", !.fd = "temp",
                                       !.raced = Writers("temp") # {}]
                 ELSE IF x \in Writers("temp")
                 THEN [saves[x] EXCEPT !.raced = TRUE]
                 ELSE saves[x]]
  /\ resp' = NoResp
  /\ UNCHANGED <<phase, now, pastes, order, saveTimeout, timers, storage,
                 creates, budget, faults, crashes, histVars>>

\* Mutant: the document is built from the Map when the write finishes, not
\* when savePastes is called.
WriteDoneLate(s) ==
  /\ s \in DOMAIN saves /\ saves[s].pc = "write"
  /\ \E out \in {Json(Encode(pastes), order, ver)}
                 \cup (IF saves[s].raced
                       THEN {Partial, IF saves[s].fd = "storage"
                                      THEN storage ELSE temp}
                       ELSE {}) :
        /\ temp' = IF saves[s].fd = "temp" THEN out ELSE temp
        /\ storage' = IF saves[s].fd = "storage" THEN out ELSE storage
  /\ saves' = [saves EXCEPT ![s].pc = "rename", ![s].fd = "none"]
  /\ resp' = NoResp
  /\ UNCHANGED <<phase, now, pastes, order, saveTimeout, timers,
                 creates, budget, faults, crashes, histVars>>

\* The write of the temp file finishes.  The bytes land in the file the
\* descriptor refers to, wherever a rename has linked it since.  When
\* another invocation has written the same file meanwhile, the file is left
\* with this invocation's document, with what the other one wrote, or with
\* an interleaving of both.
WriteDone(s) ==
  /\ s \in DOMAIN saves /\ saves[s].pc = "write"
  /\ \E out \in {Json(saves[s].data, saves[s].keys, saves[s].ver)}
                 \cup (IF saves[s].raced
                       THEN {Partial, IF saves[s].fd = "storage"
                                      THEN storage ELSE temp}
                       ELSE {}) :
        /\ temp' = IF saves[s].fd = "temp" THEN out ELSE temp
        /\ storage' = IF saves[s].fd = "storage" THEN out ELSE storage
  /\ saves' = [saves EXCEPT ![s].pc = "rename", ![s].fd = "none"]
  /\ resp' = NoResp
  /\ UNCHANGED <<phase, now, pastes, order, saveTimeout, timers,
                 creates, budget, faults, crashes, histVars>>

\* Deno.rename(tempFile, STORAGE_FILE): replaces the storage file by the
\* temp file; rejects when the temp file does not exist.
Rename(s) ==
  /\ s \in DOMAIN saves /\ saves[s].pc = "rename"
  /\ IF temp.kind = "absent"
     THEN /\ saves' = [saves EXCEPT ![s].pc = "return", ![s].failed = TRUE]
          /\ UNCHANGED <<storage, temp>>
     ELSE /\ storage' = temp
          /\ temp' = Absent
          /\ saves' = [x \in DOMAIN saves |->
                         IF x = s THEN [saves[x] EXCEPT !.pc = "return"]
                         ELSE IF saves[x].fd = "temp"
                         THEN [saves[x] EXCEPT !.fd = "storage"]
                         ELSE IF saves[x].fd = "storage"
                         THEN [saves[x] EXCEPT !.fd = "unlinked"]
                         ELSE saves[x]]
  /\ resp' = NoResp
  /\ UNCHANGED <<phase, now, pastes, order, saveTimeout, timers,
                 creates, budget, faults, crashes, histVars>>

\* A file operation of savePastes rejects (disk full, permissions, ...):
\* the catch block logs the error.  A write that fails midway leaves what
\* it had written.
WriteError(s) ==
  /\ s \in DOMAIN saves /\ saves[s].pc \in {"open", "write", "rename"}
  /\ faults < MaxFaults
  /\ faults' = faults + 1
  /\ saves' = [saves EXCEPT ![s].pc = "return", ![s].fd = "none",
                            ![s].failed = TRUE]
  /\ resp' = NoResp
  /\ UNCHANGED <<phase, now, pastes, order, saveTimeout, timers, storage,
                 temp, creates, budget, crashes, histVars>>

\* savePastes has resolved; the timer callback resumes: saveTimeout = null.
SaveReturn(s) ==
  /\ s \in DOMAIN saves /\ saves[s].pc = "return"
  /\ saveTimeout' = 0
  /\ saves' = [x \in DOMAIN saves \ {s} |-> saves[x]]
  /\ owedWait' = owedWait \ {s}
  /\ resp' = NoResp
  /\ UNCHANGED <<phase, now, pastes, order, timers, storage, temp, creates, budget, faults,
                 crashes, ver, flushedVer, oldestDirty, lastMark, burstSaves,
                 owed, owedVer>>

\* ------------------------------------------------------------ environment
\* The process is killed: everything in memory is gone, the files stay as
\* they are.
Crash ==
  /\ phase \in {"loading", "loaded", "serving"}
  /\ crashes < MaxCrashes
  /\ crashes' = crashes + 1
  /\ phase' = "crashed"
  /\ pastes' = EmptyMap /\ order' = <<>> /\ saveTimeout' = 0 /\ timers' = EmptyMap
  /\ saves' = EmptyMap /\ resp' = NoResp
  /\ ver' = 0 /\ flushedVer' = 0 /\ oldestDirty' = -1 /\ lastMark' = -1
  /\ burstSaves' = 0 /\ owed' = FALSE /\ owedWait' = {} /\ owedVer' = 0
  /\ storage' = [storage EXCEPT !.ver = 0]
  /\ temp' = [temp EXCEPT !.ver = 0]
  /\ UNCHANGED <<now, creates, budget, faults>>

\* The program is started again.
Restart ==
  /\ phase = "crashed"
  /\ phase' = "loading"
  /\ UNCHANGED <<now, pastes, order, saveTimeout, timers, saves, storage,
                 temp, resp, creates, budget, faults, crashes, histVars>>

\* Time passes while the server runs (startup takes less than one clock
\* unit).  Due timers fire and callbacks that are ready to resume run
\* before the clock advances; file operations may span any number of
\* clock units.
Tick ==
  /\ phase = "serving"
  /\ now < MaxTime
  /\ \A id \in DOMAIN timers : timers[id].due > now
  /\ \A s \in DOMAIN saves : saves[s].pc # "return"
  /\ now' = now + 1
  /\ resp' = NoResp
  /\ UNCHANGED <<phase, pastes, order, saveTimeout, timers, saves,
                 storage, temp, creates, budget, faults, crashes, histVars>>

Next ==
  \/ loadPastes
  \/ Startup
  \/ \E id \in DOMAIN timers : CleanupTimer(id)
  \/ \E c \in Contents, e \in ExpirationInputs, d \in DrawSeqs : Create(c, e, d)
  \/ \E id \in KnownIds : Get(id)
  \/ \E limit \in {HomePreview, ListPreview} : ListRecent(limit)
  \/ \E id \in DOMAIN timers : SaveTimer(id)
  \/ \E s \in DOMAIN saves : WriteOpen(s)
  \/ \E s \in DOMAIN saves : WriteDone(s)
  \/ \E s \in DOMAIN saves : Rename(s)
  \/ \E s \in DOMAIN saves : WriteError(s)
  \/ \E s \in DOMAIN saves : SaveReturn(s)
  \/ Crash
  \/ Restart
  \/ Tick

Spec == Init /\ [][Next]_vars

\* The flush scheduler on its own: no kill, no injected error, one content
\* and no time-to-live, and room for one more mutation.
NextSched ==
  \/ loadPastes
  \/ Startup
  \/ \E id \in DOMAIN timers : CleanupTimer(id)
  \/ \E d \in DrawSeqs : Create("hello", Null, d)
  \/ \E id \in DOMAIN timers : SaveTimer(id)
  \/ \E s \in DOMAIN saves : WriteOpen(s)
  \/ \E s \in DOMAIN saves : WriteDone(s)
  \/ \E s \in DOMAIN saves : Rename(s)
  \/ \E s \in DOMAIN saves : SaveReturn(s)
  \/ Tick

SpecSched == InitWith(MaxMarks) /\ [][NextSched]_vars

\* The scheduler with the progress the runtime guarantees.  Mutations stop
\* early enough for the clock of the model to reach the instant at which
\* the debounce timer of the last one is due.
Mutate(d) ==
  /\ now + DebounceDelay <= MaxTime
  /\ Create("hello", Null, d)

NextLive ==
  \/ loadPastes
  \/ Startup
  \/ \E id \in DOMAIN timers : CleanupTimer(id)
  \/ \E d \in DrawSeqs : Mutate(d)
  \/ \E id \in DOMAIN timers : SaveTimer(id)
  \/ \E s \in DOMAIN saves : WriteOpen(s)
  \/ \E s \in DOMAIN saves : WriteDone(s)
  \/ \E s \in DOMAIN saves : Rename(s)
  \/ \E s \in DOMAIN saves : SaveReturn(s)
  \/ Tick

\* The top-level await resolves and the module runs on; time passes; the
\* event loop runs the callback of every due timer and resumes every
\* callback whose awaited operation has settled; every file operation that
\* was issued completes.
Fairness ==
  /\ WF_vars(loadPastes)
  /\ WF_vars(Startup)
  /\ WF_vars(Tick)
  /\ WF_vars(\E id \in DOMAIN timers : CleanupTimer(id))
  /\ WF_vars(\E id \in DOMAIN timers : SaveTimer(id))
  /\ WF_vars(\E s \in DOMAIN saves : WriteOpen(s))
  /\ WF_vars(\E s \in DOMAIN saves : WriteDone(s))
  /\ WF_vars(\E s \in DOMAIN saves : Rename(s))
  /\ WF_vars(\E s \in DOMAIN saves : SaveReturn(s))

SpecLive == InitWith(MaxMarks) /\ [][NextLive]_vars /\ Fairness
\* ================================================================= claims
SaveTimersArmed == {id \in DOMAIN timers : timers[id].kind = "save"}

\* No flush timer is armed and no savePastes invocation is in flight.
Quiet == SaveTimersArmed = {} /\ DOMAIN saves = {}

\* The instant held in expiresAt has been reached.
ExpiredAt(paste, t) == Truthy(paste.expiresAt) /\ paste.expiresAt.t <= t

IdAlphabet == {"a","b","c","d","e","f","g","h","i","j","k","l","m","n","o",
               "p","q","r","s","t","u","v","w","x","y","z",
               "0","1","2","3","4","5","6","7","8","9"}

\* C1: a Get of a paste that is in the index and whose expiresAt is <= now
\* answers NotFound (404), whether or not a sweep has run since.
C1_GetExpiredNotFound ==
  (resp.op = "Get" /\ resp.id \in DOMAIN pastes
     /\ ExpiredAt(pastes[resp.id], now))
  => resp.status = 404

\* C2: once a dirty-mark has been made while a flush was in flight and the
\* scheduler has come to rest without any injected error, a further flush
\* has started after the in-flight one completed and the committed
\* storage file holds the index as of that mark or later.
C2_MarkDuringFlushNotLost ==
  (phase = "serving" /\ faults = 0 /\ owedVer > 0 /\ Quiet)
  => (~owed /\ storage.kind = "json" /\ storage.ver >= owedVer)

\* C3: a burst of dirty-marks (each within one debounce interval of the
\* previous one) results in exactly one savePastes invocation, which
\* snapshots the index after the last mutation of the burst.
C3_OneFlushPerBurst ==
  /\ burstSaves <= 1
  /\ (phase = "serving" /\ lastMark # -1 /\ SaveTimersArmed = {})
       => (burstSaves = 1 /\ flushedVer = ver)

\* C4: a successful Create leaves every paste that was in the index as it
\* was and adds exactly one entry.
C4_CreateNeverOverwrites ==
  [][(resp'.op = "Create" /\ resp'.status = 302)
       => /\ \A id \in DOMAIN pastes :
               id \in DOMAIN pastes' /\ pastes'[id] = pastes[id]
          /\ Cardinality(DOMAIN pastes') = Cardinality(DOMAIN pastes) + 1]_vars

\* C5: while a savePastes invocation is between the start of its temp-file
\* write and the completion of its rename, the storage file holds the
\* bytes it held when the invocation began, and the bytes of the storage
\* file change only in a step that completes a rename.
C5_StorageIntactUntilRename ==
  [][/\ \A s \in DOMAIN saves' :
          saves'[s].pc \in {"write", "rename"}
            => Bytes(storage') = saves'[s].before
     /\ Bytes(storage') # Bytes(storage)
          => \E s \in DOMAIN saves :
               /\ saves[s].pc = "rename" /\ temp.kind # "absent"
               /\ s \in DOMAIN saves' /\ saves'[s].pc = "return"]_vars

\* C6: decoding the encoding of the index gives back the index, with
\* created and expiresAt as timestamps of the same kind.
C6_RoundTrip == Decode(Encode(pastes)) = pastes

\* C7: a Get that directly follows a Create with a time-to-live of 0 hours
\* answers NotFound, the paste being stored with expiresAt = created.
C7_ZeroTtlAlreadyExpired ==
  (resp.op = "Get" /\ resp.follows /\ resp.expiration = Num(0))
  => /\ resp.status = 404
     /\ resp.id \in DOMAIN pastes
          => pastes[resp.id].expiresAt = pastes[resp.id].created

\* C8: a Create with non-empty content succeeds with an id of 6 characters
\* over [a-z0-9]; a Get that directly follows it returns that content with
\* created <= now, and the paste has no expiresAt when no ttl was given.
C8_CreateThenGet ==
  /\ (resp.op = "Create" /\ resp.sent # "")
       => /\ resp.status = 302
          /\ Len(resp.id) = 6
          /\ \A i \in 1..Len(resp.id) : resp.id[i] \in IdAlphabet
  /\ (resp.op = "Get" /\ resp.follows)
       => /\ resp.status = 200
          /\ resp.content = resp.sent
          /\ resp.created.kind = "Date" /\ resp.created.t <= now
          /\ resp.expiration = Null
               => pastes[resp.id].expiresAt = Undefined

C8_Witness ==
  /\ resp.op = "Get" /\ resp.follows /\ resp.status = 200
  /\ resp.sent = "bye" /\ resp.expiration = Null
  /\ Cardinality(DOMAIN pastes) = 2

\* C9 as stated: every mutation is reflected in a flush that starts no
\* later than one debounce interval after that mutation.
C9_LagAtMostOneInterval ==
  (phase = "serving" /\ oldestDirty # -1)
  => now <= oldestDirty + DebounceDelay

\* C9 amended: while a mutation is not yet reflected in a started flush, a
\* flush timer is armed that expires one debounce interval after the
\* latest dirty-mark, and that instant has not passed.
C9_LagAfterLastMark ==
  (phase = "serving" /\ ver > flushedVer)
  => \E id \in SaveTimersArmed :
       /\ timers[id].due = lastMark + DebounceDelay
       /\ now <= timers[id].due

C9_Witness ==
  /\ phase = "serving" /\ ver > flushedVer
  /\ oldestDirty # -1 /\ lastMark > oldestDirty
  /\ now > oldestDirty + DebounceDelay

\* C10: a Create with empty content answers 400 and changes neither the
\* index, nor the scheduler (saveTimeout, armed timers, flushes in flight),
\* nor the files.
C10_EmptyContentRejected ==
  [][(resp'.op = "Create" /\ resp'.sent = "")
       => /\ resp'.status = 400
          /\ UNCHANGED <<pastes, order, saveTimeout, timers, saves, storage, temp>>]_vars

C10_Witness ==
  /\ resp.op = "Create" /\ resp.status = 400
  /\ pastes # EmptyMap /\ saveTimeout # 0 /\ DOMAIN saves # {}

\* C11: a listing holds exactly the pastes of the index that are not
\* expired (expiresAt absent or later than now), each once, ordered by
\* created descending.
C11_ListNonExpiredNewestFirst ==
  resp.op = "List"
  => /\ {resp.list[i].id : i \in 1..Len(resp.list)}
          = {id \in DOMAIN pastes : ~ExpiredAt(pastes[id], now)}
     /\ \A i, j \in 1..Len(resp.list) :
          i < j => /\ resp.list[i].id # resp.list[j].id
                   /\ pastes[resp.list[i].id].created.t
                        >= pastes[resp.list[j].id].created.t

\* C12: when a savePastes invocation whose write or rename rejected
\* returns, the server is still serving with the index untouched, the
\* storage file holds the bytes it held when the invocation began, and the
\* scheduler is Idle (saveTimeout null, no flush timer armed, no flush in
\* flight); and whenever the index holds a mutation that no started flush
\* reflects, a flush timer is armed whose flush will snapshot the full index.
C12_FailedFlushLeavesIdle ==
  [][/\ \A s \in DOMAIN saves :
          (saves[s].failed /\ s \notin DOMAIN saves' /\ phase' # "crashed")
            => /\ phase' = "serving" /\ pastes' = pastes
               /\ Bytes(storage') = saves[s].before
               /\ saveTimeout' = 0 /\ SaveTimersArmed' = {}
               /\ DOMAIN saves' = {}
     /\ (phase' = "serving" /\ ver' > flushedVer') => SaveTimersArmed' # {}
     /\ \A s \in DOMAIN saves' \ DOMAIN saves :
          saves'[s].data = Encode(pastes')]_vars

CleanupTimersArmed == {id \in DOMAIN timers : timers[id].kind = "cleanup"}

\* C13: when the storage file is missing or does not hold a document,
\* loadPastes completes with an empty index instead of ending the process,
\* and the step after it starts the sweeper (one cleanup timer armed one
\* period ahead) and the server with that empty index.
C13_BadFileStartsEmpty ==
  [][/\ (phase = "loading" /\ storage.kind # "json"
           /\ phase' # phase /\ crashes' = crashes)
          => (phase' = "loaded" /\ pastes' = EmptyMap /\ order' = <<>>)
     /\ (phase = "loaded" /\ pastes = EmptyMap
           /\ phase' # phase /\ crashes' = crashes)
          => /\ phase' = "serving" /\ pastes' = EmptyMap
             /\ \E id \in DOMAIN timers' :
                  /\ timers'[id] = [kind |-> "cleanup", due |-> now + CleanupPeriod]
                  /\ DOMAIN timers' = {id}]_vars

C13_Witness ==
  /\ phase = "serving" /\ storage = Partial /\ creates = 0 /\ crashes = 0
  /\ pastes = EmptyMap /\ Cardinality(CleanupTimersArmed) = 1
  /\ resp.op = "Get" /\ resp.status = 404

\* A step that runs cleanupExpiredPastes: the call at startup, or the
\* firing of a cleanup timer.
SweepStep ==
  \/ phase = "loaded" /\ phase' = "serving"
  \/ /\ phase = "serving" /\ phase' = "serving" /\ timers' # timers
     /\ \E id \in CleanupTimersArmed :
          /\ timers[id].due <= now
          /\ id \notin DOMAIN timers' \/ timers'[id] # timers[id]

\* C14: a sweep leaves no paste in the index whose expiresAt is <= the
\* time of the sweep, whether the paste was created in this run or loaded
\* from the snapshot file, and it makes a dirty-mark exactly when it has
\* removed at least one paste.
C14_SweepRemovesAllExpired ==
  [][SweepStep
       => /\ \A id \in DOMAIN pastes' : ~ExpiredAt(pastes'[id], now)
          /\ (ver' = ver + 1 /\ lastMark' = now
                /\ saveTimeout' \in SaveTimersArmed'
                /\ timers'[saveTimeout'].due = now + DebounceDelay)
               <=> DOMAIN pastes' # DOMAIN pastes
          /\ ver' # ver <=> DOMAIN pastes' # DOMAIN pastes]_vars

\* C15: at most one flush timer is armed, and saveTimeout is null exactly
\* when no flush timer is armed and no savePastes invocation is in flight.
C15_SchedulerRaceFree ==
  /\ Cardinality(SaveTimersArmed) <= 1
  /\ saveTimeout = 0 <=> Quiet

\* The scheduler is at rest and the storage file holds the encoding of
\* the index.
Settled ==
  /\ Quiet
  /\ Bytes(storage) = Bytes(Json(Encode(pastes), order, 0))

\* C16: without write errors and crashes, once mutations have stopped the
\* store comes to rest for good: no flush timer armed, no flush in flight,
\* and the storage file equal to the encoding of the index (given that
\* the index was mutated at all since startup).
C16_Quiescence == <>[](ver > 0 => Settled)

\* C17: the document a savePastes invocation writes is the encoding of the
\* index at the instant the invocation began; it stays the same while the
\* invocation is in flight, whatever Creates and sweeps do to the index
\* meanwhile, and a write that no other invocation interferes with leaves
\* exactly that document in the file.
C17_SnapshotAtStart ==
  [][saves' # saves => \A s \in DOMAIN saves' :
       /\ s \notin DOMAIN saves
            => /\ saves'[s].data = Encode(pastes) /\ saves'[s].keys = order
               /\ pastes' = pastes /\ order' = order
       /\ s \in DOMAIN saves
            => /\ saves'[s].data = saves[s].data
               /\ saves'[s].keys = saves[s].keys
               /\ (saves[s].pc = "write" /\ saves'[s].pc = "rename"
                     /\ ~saves[s].raced /\ saves[s].fd = "temp")
                    => Bytes(temp') = Bytes(Json(saves[s].data, saves[s].keys, 0))]_vars

C17_Witness ==
  \E s \in DOMAIN saves :
    /\ saves[s].pc = "rename" /\ ~saves[s].raced
    /\ Bytes(temp) = Bytes(Json(saves[s].data, saves[s].keys, 0))
    /\ DOMAIN saves[s].data # {}
    /\ DOMAIN pastes # DOMAIN saves[s].data

\* C18: while the server runs exactly one cleanup timer is armed (every
\* sweep has scheduled the next one), and every paste that is in the index
\* with its expiresAt reached is eventually no longer in the index (its id
\* is then absent, or names a later paste that has not expired).
C18_SweepsRecurAndEvict ==
  /\ [](phase = "serving" => Cardinality(CleanupTimersArmed) = 1)
  /\ \A id \in KnownIds :
       (id \in DOMAIN pastes /\ ExpiredAt(pastes[id], now))
         ~> ~(id \in DOMAIN pastes /\ ExpiredAt(pastes[id], now))

\* C19: a step that answers a Get or a listing changes neither the index,
\* nor saveTimeout, the armed timers and the flushes in flight, nor the
\* storage and temp files; a Get repeated at once for the same id, and a
\* listing repeated at once, give the same answer.
C19_ReadsChangeNothing ==
  [][resp'.op \in {"Get", "List"}
       => /\ UNCHANGED <<pastes, order, saveTimeout, timers, saves,
                         storage, temp>>
          /\ (resp.op = "Get" /\ resp'.op = "Get" /\ resp'.id = resp.id)
               => /\ resp'.status = resp.status
                  /\ resp'.content = resp.content
                  /\ resp'.created = resp.created
          /\ (resp.op = "List" /\ resp'.op = "List")
               => resp'.list = resp.list]_vars

C19_Witness ==
  /\ resp.op = "List" /\ Len(resp.list) = 2
  /\ resp.list[1].id # resp.list[2].id
  /\ SaveTimersArmed # {} /\ DOMAIN saves # {} /\ storage.kind = "json"

\* C20: at most one savePastes invocation is in flight, so no two of them
\* have pastes.json.temp open for writing, or pending for rename, at once.
C20_OneFlushInFlight == Cardinality(DOMAIN saves) <= 1

\* C21: whenever the storage file changes while the process runs, its new
\* content is a complete document, the snapshot of a savePastes invocation
\* (the encoding of the index at the instant that invocation began), and
\* that snapshot is not older than the one the file held before.
C21_StorageNeverRegresses ==
  [][(storage' # storage /\ phase' # "crashed")
       => /\ storage'.kind = "json"
          /\ \E s \in DOMAIN saves :
               /\ storage'.data = saves[s].data
               /\ storage'.keys = saves[s].keys
               /\ storage'.ver = saves[s].ver
          /\ storage'.ver >= storage.ver]_vars

\* C22: a sweep keeps every paste that has no expiresAt or whose expiresAt
\* is later than the time of the sweep, with the content, created and
\* expiresAt it had and in the order it had; and a sweep that removes
\* nothing changes neither saveTimeout, nor the armed flush timers, nor
\* the flushes in flight, nor the files.
C22_SweepKeepsUnexpired ==
  [][SweepStep
       => /\ \A id \in DOMAIN pastes :
               ~ExpiredAt(pastes[id], now)
                 => id \in DOMAIN pastes' /\ pastes'[id] = pastes[id]
          /\ order' = SelectSeq(order, LAMBDA id : id \in DOMAIN pastes')
          /\ DOMAIN pastes' = DOMAIN pastes
               => /\ saveTimeout' = saveTimeout
                  /\ SaveTimersArmed' = SaveTimersArmed
                  /\ \A id \in SaveTimersArmed : timers'[id] = timers[id]
                  /\ UNCHANGED <<saves, storage, temp, histVars>>]_vars

C22_Witness ==
  /\ phase = "serving" /\ now = Hour /\ crashes = 0 /\ creates = 2
  /\ ver = 3 /\ lastMark = now
  /\ \E id \in CleanupTimersArmed : timers[id].due = now + CleanupPeriod
  /\ Cardinality(DOMAIN pastes) = 1
  /\ \A id \in DOMAIN pastes :
       pastes[id].expiresAt.kind = "Date" /\ pastes[id].expiresAt.t > now

\* C23: right after a successful Create has answered, the debounce timer it
\* armed is pending a full delay ahead and no savePastes invocation holds
\* the new paste yet; and while a savePastes invocation is in flight the
\* server still takes every Get and every Create.
C23_CreateDoesNotWait ==
  /\ (resp.op = "Create" /\ resp.status = 302)
       => /\ saveTimeout \in SaveTimersArmed
          /\ timers[saveTimeout].due = now + DebounceDelay
          /\ saveTimeout \notin DOMAIN saves
          /\ \A s \in DOMAIN saves : saves[s].ver < ver
  /\ (phase = "serving" /\ DOMAIN saves # {})
       => /\ \A id \in KnownIds : ENABLED Get(id)
          /\ ENABLED Create("", Null, <<0, 1, 27, 28, 2, 3>>)
          /\ creates < budget
               => \A d \in DrawSeqs : ENABLED Create("hello", Num(1), d)

C23_Witness ==
  /\ resp.op = "Create" /\ resp.status = 302
  /\ \E s \in DOMAIN saves : saves[s].pc = "write"
  /\ resp.id \in DOMAIN pastes
  /\ \A s \in DOMAIN saves : resp.id \notin DOMAIN saves[s].data

\* C24: until loadPastes has completed no timer is armed (no sweep has
\* run) and no request is answered; the step that completes it sets the
\* index to the entries of the storage file, or to empty when the file
\* holds no document, and changes neither saveTimeout, nor a timer, nor a
\* file; the first sweep and the first request come after it.
C24_LoadBeforeSweepAndServe ==
  [][/\ (phase = "loading" /\ phase' # "crashed")
          => /\ UNCHANGED <<saveTimeout, timers, saves, storage, temp>>
             /\ resp' = NoResp
             /\ phase' \in {"loading", "loaded"}
             /\ phase' = "loaded"
                  => DOMAIN pastes' = IF storage.kind = "json"
                                      THEN DOMAIN storage.data ELSE {}
     /\ phase = "loading" => timers = EmptyMap /\ saveTimeout = 0
     /\ phase = "loaded" => timers = EmptyMap /\ saveTimeout = 0
     /\ (timers' # timers /\ phase' # "crashed")
          => phase \in {"loaded", "serving"}
     /\ resp'.op # "none" => phase = "serving"]_vars

C24_Witness ==
  /\ phase = "loaded" /\ crashes = 1
  /\ storage.kind = "json" /\ Cardinality(DOMAIN storage.data) = 2
  /\ DOMAIN pastes = DOMAIN storage.data
  /\ timers = EmptyMap /\ saveTimeout = 0
====
